---- MODULE Spec2Model ----
(***************************************************************************)
(* Model of inv_csv_cleaner.py: main() and clean_and_save_file().          *)
(*                                                                         *)
(* Python strings are modelled as sequences of one-character strings, so   *)
(* that `in`, startswith, replace, split, basename, splitext and join are  *)
(* computed character by character as Python computes them.                *)
(***************************************************************************)
EXTENDS Integers, Sequences, FiniteSets, TLC

VARIABLES
    argv,            \* sys.argv[1:] of the current process
    pc,              \* position of the current process in main / clean_and_save_file
    input_filename,  \* parameter of clean_and_save_file
    output_folder,   \* parameter of clean_and_save_file
    raw,             \* the table as pd.read_csv returned it (line 36)
    df,              \* the DataFrame from line 55 on: rows keyed by the index
    columns,         \* df.columns
    index_name,      \* df.index.name
    filtered_count,  \* the count logged at line 136
    new_filename,    \* line 153
    ret,             \* the value clean_and_save_file returned
    exit_status,     \* the status passed to sys.exit
    raised,          \* the stage whose exception reached the handler of line 169
    reads,           \* number of pd.read_csv calls made so far (all processes)
    dirs,            \* directories os.makedirs has created
    disk,            \* files df.to_csv has written: path -> content
    run              \* number of the current process (1 = first invocation)

vars == << argv, pc, input_filename, output_folder, raw, df, columns, index_name,
           filtered_count, new_filename, ret, exit_status, raised, reads, dirs,
           disk, run >>

-----------------------------------------------------------------------------
(* Bounds of the model *)

MaxRows == 2
MaxRuns == 2

-----------------------------------------------------------------------------
(* Python string operations *)

\* s.startswith(p)
StartsWith(s, p) ==
    /\ Len(p) <= Len(s)
    /\ \A i \in 1..Len(p) : s[i] = p[i]

\* the positions where sub occurs in s
Occurrences(s, sub) ==
    { i \in 1..(Len(s) - Len(sub) + 1) : \A j \in 1..Len(sub) : s[i + j - 1] = sub[j] }

\* sub in s
Contains(s, sub) == Occurrences(s, sub) # {}

Min(S) == CHOOSE x \in S : \A y \in S : x <= y
Max(S) == CHOOSE x \in S : \A y \in S : x >= y

\* s.replace('"', "")
RemoveQuotes(s) == SelectSeq(s, LAMBDA c : c # "\"")

ParenSep == <<" ", "(">>

\* s.split(" (")[0]
SplitFirstBad(s) ==
    IF Contains(s, ParenSep) THEN SubSeq(s, 1, Max(Occurrences(s, ParenSep)) - 1) ELSE s

SplitFirst(s) ==
    IF Contains(s, ParenSep) THEN SubSeq(s, 1, Min(Occurrences(s, ParenSep)) - 1) ELSE s

\* os.path.basename(p): what follows the last "/"
basename(p) ==
    LET slashes == { i \in 1..Len(p) : p[i] = "/" }
    IN  IF slashes = {} THEN p ELSE SubSeq(p, Max(slashes) + 1, Len(p))

\* os.path.splitext(b)[0] for a name b without "/": cut at the last dot, unless
\* only dots precede it (leading dots are not an extension)
splitext_root(b) ==
    LET dots == { i \in 1..Len(b) : b[i] = "." }
    IN  IF dots = {} THEN b
        ELSE LET d == Max(dots)
             IN  IF \E i \in 1..(d - 1) : b[i] # "." THEN SubSeq(b, 1, d - 1) ELSE b

\* os.path.join(a, b) for a relative b
path_join(a, b) ==
    IF a = <<>> THEN b
    ELSE IF a[Len(a)] = "/" THEN a \o b
    ELSE a \o <<"/">> \o b

Digits == <<"0", "1", "2", "3", "4", "5", "6", "7", "8", "9">>

IsDigit(c) == \E d \in 1..10 : Digits[d] = c

DigitVal(c) == (CHOOSE d \in 1..10 : Digits[d] = c) - 1

RECURSIVE ParseInt(_)
ParseInt(s) ==
    IF s = <<>> THEN 0 ELSE 10 * ParseInt(SubSeq(s, 1, Len(s) - 1)) + DigitVal(s[Len(s)])

\* str(n) for an int n >= 0
RECURSIVE IntToStr(_)
IntToStr(n) ==
    IF n < 10 THEN << Digits[n + 1] >> ELSE IntToStr(n \div 10) \o << Digits[(n % 10) + 1] >>

-----------------------------------------------------------------------------
(* Literals of the program *)

\* the marker of line 31
cleaned == <<"c", "l", "e", "a", "n", "e", "d">>

\* the suffix of line 153
cleaned_suffix == <<"_", "c", "l", "e", "a", "n", "e", "d", ".", "c", "s", "v">>

\* the index name of line 57
SKU == <<"S", "K", "U">>

\* the list of lines 65-77
categories ==
    << <<"U", "n", "c", "a", "t", "e", "g", "o", "r", "i", "z", "e", "d">>,
       <<"I", "n", "v", "e", "n", "t", "o", "r", "y">>,
       <<"T", "o", "t", "a", "l", " ", "I", "n", "v", "e", "n", "t", "o", "r", "y">>,
       <<"T", "o", "t", "a", "l", " ", "U", "n", "c", "a", "t", "e", "g", "o", "r", "i", "z", "e", "d">>,
       <<"T", "O", "T", "A", "L">>,
       <<"C", "o", "r", "e", " ", "S", "t", "o", "c", "k", " ", "-", " ", "A", "T", "L">>,
       <<"T", "o", "t", "a", "l", " ", "C", "o", "r", "e", " ", "S", "t", "o", "c", "k", " ", "-", " ", "A", "T", "L">>,
       <<"T", "o", "t", "a", "l", " ", "C", "o", "r", "e", " ", "S", "t", "o", "c", "k", " ", "-", " ", "A", "T", "L", "\\">>,
       <<"C", "o", "r", "e", " ", "S", "t", "o", "c", "k", " ", "-", " ", "A", "T", "L", "\\">>,
       <<"C", "o", "r", "e", " ", "S", "t", "o", "c", "k", " ", "-", " ", "A", "T", "L", ",", " ", "A", "M", "S">>,
       <<"T", "o", "t", "a", "l", " ", "C", "o", "r", "e", " ", "S", "t", "o", "c", "k", " ", "-", " ", "A", "T", "L", ",", " ", "A", "M", "S">> >>

\* the tuple of lines 90-109
number_patterns ==
    << <<"1", "4", "-">>,
       <<"1", "6", "-">>,
       <<"2", "0", "-">>,
       <<"2", "1", "-">>,
       <<"7", "0", "-">>,
       <<"0", "0", "-">>,
       <<"1", "4", ".">>,
       <<"3", "2", "0", "-">>,
       <<"I", "P", "1", "5", "L">>,
       <<"I", "P", "1", "9", "L">>,
       <<"C", "h", "r", "o", "m", "e", "-">>,
       <<"C", "u", "s", "t", "o", "m", "s", "-">>,
       <<"L", "G", "E", "-">>,
       <<"O", "F", "1", "5", "L">>,
       <<"R", "1", "5", "L">>,
       <<"R", "M", "1", "2", "L">>,
       <<"W", "2", "4", "L">>,
       <<"V", "G", "L">> >>

\* the tuple of lines 115-125
prefixes ==
    << <<"B", "S", "B", "I", "-">>,
       <<"S", "e", "n", "e", "c", "a", "-">>,
       <<"B", "F">>,
       <<"O", "p", "t", "C", "o", "n", "n", "e", "c", "t", "-">>,
       <<"B", "r", "i", "g", "h", "t", "S", "i", "g", "n", "-">>,
       <<"C", "h", "r", "o", "m", "e", "-">>,
       <<"C", "u", "s", "t", "o", "m", "s", "-">>,
       <<"I", "P", "1", "5", "L">>,
       <<"I", "P", "1", "9", "L">> >>

-----------------------------------------------------------------------------
(* Inputs: command lines and file contents *)

K_TOTAL == <<"T", "O", "T", "A", "L">>
K_SpTOTAL == <<" ", "T", "O", "T", "A", "L">>
K_total == <<"t", "o", "t", "a", "l">>
K_14 == <<"1", "4", "-", "0", "0", "9", "9">>
K_used == <<"S", "K", "U", "-", "A", "B", "C", " ", "(", "u", "s", "e", "d", ")">>
K_TOTALx == <<"T", "O", "T", "A", "L", " ", "(", "x", ")">>
K_two == <<"A", " ", "(", "b", ")", " ", "(", "c", ")">>
K_qBF == <<"\"", "B", "F", "1", "\"">>
K_007 == <<"0", "0", "7">>

\* first-column fields as the CSV parser hands them to type inference
RawKeys == { K_TOTAL, K_SpTOTAL, K_total, K_14, K_used, K_TOTALx, K_two, K_qBF, K_007 }

\* values of the data column
Cells == { "5", "10" }

\* names of the data column
H_Name == <<"N", "a", "m", "e">>
H_qTotal == <<"\"", "T", "o", "t", "a", "l", "\"">>
HeaderNames == { H_Name, H_qTotal }

F_inv == <<"i", "n", "v", ".", "c", "s", "v">>
F_dotted == <<"d", ".", "x", "/", "a", ".", "b", ".", "c", "s", "v">>
F_cleaned == <<"c", "l", "e", "a", "n", "e", "d", ".", "c", "s", "v">>
F_Cleaned == <<"C", "l", "e", "a", "n", "e", "d">>
InputFiles == { F_inv, F_dotted, F_cleaned, F_Cleaned }

O_out == <<"o", "u", "t">>
O_slash == <<"o", "/">>
O_empty == <<>>
Folders == { O_out, O_slash, O_empty }

ArgvSet ==
    { <<>> } \cup { <<f>> : f \in InputFiles }
             \cup { <<f, o>> : f \in InputFiles, o \in Folders }

\* sequences over S of length at most n
SeqUpTo(S, n) == UNION { [1..k -> S] : k \in 0..n }

-----------------------------------------------------------------------------
(* pandas operations *)

StrVal(s) == [t |-> "str", s |-> s, n |-> 0]
IntVal(n) == [t |-> "int", s |-> <<>>, n |-> n]

IsIntField(s) == s # <<>> /\ \A i \in 1..Len(s) : IsDigit(s[i])

\* read_csv's type inference on the first column: int64 when every field
\* is an integer, object (strings) otherwise
InferColumn(keys) ==
    IF keys # <<>> /\ \A i \in 1..Len(keys) : IsIntField(keys[i])
    THEN [i \in 1..Len(keys) |-> IntVal(ParseInt(keys[i]))]
    ELSE [i \in 1..Len(keys) |-> StrVal(keys[i])]

\* the DataFrame read_csv builds from a header and rows of <<key, cell>> fields
ParseTable(h, rows) ==
    LET c0 == InferColumn([i \in 1..Len(rows) |-> rows[i][1]])
    IN  [columns |-> <<h>>,
         rows |-> [i \in 1..Len(rows) |-> [c0 |-> c0[i], cell |-> rows[i][2], row |-> i]]]

\* the tables read_csv can return for a path: the content of a file this
\* program wrote, or any content for a file it did not write
FileTables(path) ==
    IF path \in DOMAIN disk
    THEN { ParseTable(disk[path].header[2], disk[path].rows) }
    ELSE { ParseTable(h, rows) : h \in HeaderNames, rows \in SeqUpTo(RawKeys \X Cells, MaxRows) }

\* Series.astype(str) on one value
astype_str(v) == IF v.t = "int" THEN IntToStr(v.n) ELSE v.s

\* lines 46-52: the key of one row
sku_column(v) == RemoveQuotes(astype_str(v))

\* line 85
IsCategory(k) == \E i \in 1..Len(categories) : categories[i] = k

\* lines 89-110
IsNumberPatternBad(k) == \E i \in 1..Len(number_patterns) : number_patterns[i] = k

IsNumberPattern(k) == \E i \in 1..Len(number_patterns) : StartsWith(k, number_patterns[i])

\* lines 114-126
IsPrefixedBad(k) == \E i \in 1..Len(prefixes) : prefixes[i] = k

IsPrefixed(k) == \E i \in 1..Len(prefixes) : StartsWith(k, prefixes[i])

\* lines 80-130: the labels the loop appends to to_keep
to_keep(d) ==
    LET keys == [i \in 1..Len(d) |-> d[i].key]
    IN  SelectSeq(keys, LAMBDA k : ~IsCategory(k) /\ ~IsNumberPattern(k) /\ ~IsPrefixed(k))

\* the rows of d whose label is k, in index order
RowsLabelled(d, k) == SelectSeq(d, LAMBDA r : r.key = k)

\* df.loc[labels] for a list of labels: for each label in turn, every row of
\* the frame that carries the label
RECURSIVE loc(_, _)
loc(d, labels) ==
    IF labels = <<>> THEN <<>>
    ELSE RowsLabelled(d, Head(labels)) \o loc(d, Tail(labels))

\* the index name: a name, or None
Named(s) == [named |-> TRUE, name |-> s]
NoName == [named |-> FALSE, name |-> <<>>]

\* the label to_csv writes for the index column
IndexLabel(nm) == IF nm.named THEN nm.name ELSE <<>>

\* the file to_csv writes
CsvContent(d, cols, nm) ==
    [header |-> <<IndexLabel(nm)>> \o cols,
     rows |-> [i \in 1..Len(d) |-> <<d[i].key, d[i].cell>>]]

\* line 151-153
OutputPath(inp, folder) ==
    path_join(folder, splitext_root(basename(inp)) \o cleaned_suffix)

-----------------------------------------------------------------------------
(* The program *)

NoTable == [columns |-> <<>>, rows |-> <<>>]

Init ==
    /\ argv \in ArgvSet
    /\ pc = "main"
    /\ input_filename = <<>>
    /\ output_folder = <<>>
    /\ raw = NoTable
    /\ df = <<>>
    /\ columns = <<>>
    /\ index_name = NoName
    /\ filtered_count = 0
    /\ new_filename = <<>>
    /\ ret = "unset"
    /\ exit_status = -1
    /\ raised = "none"
    /\ reads = 0
    /\ dirs = {}
    /\ disk = <<>>
    /\ run = 1

\* lines 181-183: whether main stops at the usage check, and its exit status
UsageExitBad(a) == [exits |-> Len(a) + 1 < 3, status |-> 0]

UsageExit(a) == [exits |-> Len(a) + 1 < 3, status |-> 1]

\* main, lines 179-191 up to the call
Main ==
    /\ pc = "main"
    /\ IF UsageExit(argv).exits
       THEN /\ exit_status' = UsageExit(argv).status
            /\ pc' = "exited"
            /\ UNCHANGED << input_filename, output_folder >>
       ELSE /\ input_filename' = argv[1]
            /\ output_folder' = argv[2]
            /\ pc' = "guard"
            /\ UNCHANGED exit_status
    /\ UNCHANGED << argv, raw, df, columns, index_name, filtered_count, new_filename,
                    ret, raised, reads, dirs, disk, run >>

\* line 31
AlreadyCleanedBad(name) == StartsWith(name, cleaned)

AlreadyCleaned(name) == Contains(name, cleaned)

\* lines 30-33
Guard ==
    /\ pc = "guard"
    /\ IF AlreadyCleaned(input_filename)
       THEN ret' = "None" /\ pc' = "return"
       ELSE ret' = ret /\ pc' = "read_csv"
    /\ UNCHANGED << argv, input_filename, output_folder, raw, df, columns, index_name,
                    filtered_count, new_filename, exit_status, raised, reads, dirs,
                    disk, run >>

\* lines 36-42
ReadCsv ==
    /\ pc = "read_csv"
    /\ \E t \in FileTables(input_filename) : raw' = t
    /\ reads' = reads + 1
    /\ pc' = "set_index"
    /\ UNCHANGED << argv, input_filename, output_folder, df, columns, index_name,
                    filtered_count, new_filename, ret, exit_status, raised, dirs,
                    disk, run >>

\* lines 46-62
SetIndex ==
    /\ pc = "set_index"
    /\ df' = [i \in 1..Len(raw.rows) |->
                [key |-> sku_column(raw.rows[i].c0),
                 cell |-> raw.rows[i].cell,
                 row |-> raw.rows[i].row]]
    /\ columns' = [j \in 1..Len(raw.columns) |-> RemoveQuotes(raw.columns[j])]
    /\ index_name' = Named(SKU)
    /\ pc' = "filter"
    /\ UNCHANGED << argv, input_filename, output_folder, raw, filtered_count,
                    new_filename, ret, exit_status, raised, reads, dirs, disk, run >>

\* lines 64-136
Filter ==
    /\ pc = "filter"
    /\ df' = loc(df, to_keep(df))
    /\ filtered_count' = Len(df) - Len(df')
    /\ pc' = "format"
    /\ UNCHANGED << argv, input_filename, output_folder, raw, columns, index_name,
                    new_filename, ret, exit_status, raised, reads, dirs, disk, run >>

\* lines 138-148; assigning a list to df.index builds a new, unnamed Index
FormatSku ==
    /\ pc = "format"
    /\ df' = [i \in 1..Len(df) |-> [df[i] EXCEPT !.key = SplitFirst(df[i].key)]]
    /\ index_name' = NoName
    /\ pc' = "makedirs"
    /\ UNCHANGED << argv, input_filename, output_folder, raw, columns, filtered_count,
                    new_filename, ret, exit_status, raised, reads, dirs, disk, run >>

\* lines 150-157; os.makedirs("") raises FileNotFoundError
Makedirs ==
    /\ pc = "makedirs"
    /\ new_filename' = OutputPath(input_filename, output_folder)
    /\ IF output_folder = <<>>
       THEN /\ raised' = "makedirs"
            /\ ret' = "False"
            /\ pc' = "return"
            /\ UNCHANGED dirs
       ELSE /\ dirs' = dirs \cup { output_folder }
            /\ pc' = "to_csv"
            /\ UNCHANGED << raised, ret >>
    /\ UNCHANGED << argv, input_filename, output_folder, raw, df, columns, index_name,
                    filtered_count, exit_status, reads, disk, run >>

\* lines 160-167
ToCsv ==
    /\ pc = "to_csv"
    /\ disk' = (new_filename :> CsvContent(df, columns, index_name)) @@ disk
    /\ ret' = "True"
    /\ pc' = "return"
    /\ UNCHANGED << argv, input_filename, output_folder, raw, df, columns, index_name,
                    filtered_count, new_filename, exit_status, raised, reads, dirs, run >>

TryStages == { "read_csv", "set_index", "filter", "format", "makedirs", "to_csv" }

\* lines 169-174: the statement about to run raises an Exception (a missing
\* or undecodable file, MemoryError, an I/O error, ...) and the handler
\* returns False; a write that fails may leave a truncated file behind
Raise ==
    /\ pc \in TryStages
    /\ raised' = pc
    /\ ret' = "False"
    /\ pc' = "return"
    /\ reads' = IF pc = "read_csv" THEN reads + 1 ELSE reads
    /\ IF pc = "to_csv"
       THEN \/ disk' = disk
            \/ \E k \in 0..Len(df) :
                 disk' = (new_filename :> CsvContent(SubSeq(df, 1, k), columns, index_name))
                            @@ disk
       ELSE disk' = disk
    /\ UNCHANGED << argv, input_filename, output_folder, raw, df, columns, index_name,
                    filtered_count, new_filename, exit_status, dirs, run >>

\* line 192: 0 if success else 1
ExitCodeBad(r) == IF r # "None" THEN 0 ELSE 1

ExitCode(r) == IF r = "True" THEN 0 ELSE 1

\* lines 191-192
Exit ==
    /\ pc = "return"
    /\ exit_status' = ExitCode(ret)
    /\ pc' = "exited"
    /\ UNCHANGED << argv, input_filename, output_folder, raw, df, columns, index_name,
                    filtered_count, new_filename, ret, raised, reads, dirs, disk, run >>

\* lines 195-196: the tool is invoked again, on a file an earlier run wrote
Rerun ==
    /\ pc = "exited"
    /\ run < MaxRuns
    /\ \E p \in DOMAIN disk, o \in Folders : argv' = <<p, o>>
    /\ run' = run + 1
    /\ pc' = "main"
    /\ input_filename' = <<>>
    /\ output_folder' = <<>>
    /\ raw' = NoTable
    /\ df' = <<>>
    /\ columns' = <<>>
    /\ index_name' = NoName
    /\ filtered_count' = 0
    /\ new_filename' = <<>>
    /\ ret' = "unset"
    /\ exit_status' = -1
    /\ raised' = "none"
    /\ UNCHANGED << reads, dirs, disk >>

Next ==
    \/ Main
    \/ Guard
    \/ ReadCsv
    \/ SetIndex
    \/ Filter
    \/ FormatSku
    \/ Makedirs
    \/ ToCsv
    \/ Raise
    \/ Exit
    \/ Rerun

Spec == Init /\ [][Next]_vars


-----------------------------------------------------------------------------
(* Vocabulary of the properties *)

\* the key of input row i after quote stripping, before truncation
RawKey(i) == RemoveQuotes(astype_str(raw.rows[i].c0))

CategoryLiterals == { categories[i] : i \in 1..Len(categories) }

PrefixLiterals ==
    { number_patterns[i] : i \in 1..Len(number_patterns) }
        \cup { prefixes[i] : i \in 1..Len(prefixes) }

\* a filter rule matches the key k
RuleMatches(k) ==
    \/ k \in CategoryLiterals
    \/ \E p \in PrefixLiterals : StartsWith(k, p)

\* the run wrote its output file and returned True
Written == ret = "True"

\* the rows of the file the run wrote
Output == disk[new_filename].rows

\* the file holds the frame's rows, one for one
OutputIsFrame ==
    /\ Len(Output) = Len(df)
    /\ \A j \in 1..Len(df) : Output[j] = <<df[j].key, df[j].cell>>

\* the input rows that match no rule, in input order
Survivors == SelectSeq([i \in 1..Len(raw.rows) |-> i], LAMBDA i : ~RuleMatches(RawKey(i)))

\* the current process was started with a path containing "cleaned"
GuardedRun == Len(argv) >= 2 /\ Contains(argv[1], cleaned)

-----------------------------------------------------------------------------
(* C1: a run whose input path contains "cleaned" reads no input, creates  *)
(* no directory, writes no file and exits with status 0.                  *)
C1_GuardedRunExitsZero ==
    (run = 1 /\ pc = "exited" /\ GuardedRun) =>
        /\ reads = 0
        /\ dirs = {}
        /\ disk = <<>>
        /\ exit_status = 0

(* C2: a record is in the output if and only if its quote-stripped key    *)
(* equals no category literal and starts with no prefix literal; matching *)
(* is case-sensitive and untrimmed ("total", " TOTAL" stay; "TOTAL",      *)
(* "14-0099" go).                                                         *)
C2_EmittedIffNoRuleMatches ==
    Written =>
        /\ OutputIsFrame
        /\ \A i \in 1..Len(raw.rows) :
             /\ (\E j \in 1..Len(df) : df[j].row = i) <=> ~RuleMatches(RawKey(i))
             /\ RawKey(i) \in { K_total, K_SpTOTAL } => \E j \in 1..Len(df) : df[j].row = i
             /\ RawKey(i) \in { K_TOTAL, K_14 } => \A j \in 1..Len(df) : df[j].row # i

C2_Witness ==
    /\ Written
    /\ \E i \in 1..Len(raw.rows) : RawKey(i) = K_SpTOTAL
    /\ \E i \in 1..Len(raw.rows) : RawKey(i) = <<"B", "F", "1">>
    /\ Len(df) = 1

(* C3: the filter neither duplicates nor creates rows: every input row    *)
(* matching no rule is in the output exactly once, output rows plus       *)
(* matching rows equal the input rows, and the logged count is not        *)
(* negative, also when a key occurs on several rows.                      *)
C3_RowCountInvariant ==
    Written =>
        /\ \A i \in 1..Len(raw.rows) :
             ~RuleMatches(RawKey(i)) => Cardinality({ j \in 1..Len(Output) : df[j].row = i }) = 1
        /\ Len(Output) + (Len(raw.rows) - Len(Survivors)) = Len(raw.rows)
        /\ filtered_count >= 0

(* C4: a surviving record's output key is the part of its quote-stripped  *)
(* key before the first " (", or the whole key when " (" does not occur;  *)
(* its other columns are unchanged.                                       *)
C4_KeyTruncatedAtFirstParen ==
    Written =>
        /\ OutputIsFrame
        /\ \A j \in 1..Len(Output) :
             LET k == RawKey(df[j].row)
                 out == Output[j][1]
             IN  /\ IF Contains(k, ParenSep)
                    THEN /\ StartsWith(k, out \o ParenSep)
                         /\ \A q \in Occurrences(k, ParenSep) : q >= Len(out) + 1
                    ELSE out = k
                 /\ Output[j][2] = raw.rows[df[j].row].cell

C4_Witness ==
    /\ Written
    /\ \E j \in 1..Len(Output) :
         /\ RawKey(df[j].row) = K_two
         /\ Output[j][1] = <<"A">>
    /\ \E j \in 1..Len(Output) : Output[j][1] = K_total

(* C5: when the table is serialized the index is still named "SKU", so    *)
(* the first column of the output header is "SKU".                        *)
C5_HeaderLabelledSKU ==
    /\ pc = "to_csv" => index_name = Named(SKU)
    /\ Written => disk[new_filename].header[1] = SKU

(* C6: an exception raised at any stage is caught: the function returns   *)
(* False, no later stage runs, and main exits 1; a run in which every     *)
(* stage completes exits 0.                                               *)
C6_Caught ==
    /\ raised # "none" => pc \in { "return", "exited" } /\ ret = "False"
    /\ (pc = "exited" /\ raised # "none") => exit_status = 1
    /\ (pc = "exited" /\ Written) => exit_status = 0

C6_NoLaterStage ==
    (raised # "none" /\ run' = run) =>
        UNCHANGED << raw, df, columns, index_name, new_filename, reads, dirs, disk, ret, raised >>

C6_ErrorBoundary == [] C6_Caught /\ [][C6_NoLaterStage]_vars

C6_Witness == pc = "exited" /\ raised = "filter" /\ exit_status = 1

(* C7: with fewer than two arguments main exits 1 before                  *)
(* clean_and_save_file is called: nothing is read, created or written.    *)
C7_UsageExit ==
    /\ (pc = "exited" /\ Len(argv) < 2) =>
          /\ exit_status = 1
          /\ ret = "unset"
          /\ reads = 0
          /\ dirs = {}
          /\ disk = <<>>
    /\ pc \notin { "main", "exited" } => Len(argv) >= 2

C7_Witness == pc = "exited" /\ Len(argv) = 1 /\ exit_status = 1

(* C8: every path a run writes contains "cleaned", so a second run given  *)
(* that path takes the guard: it reads nothing, transforms nothing,       *)
(* writes nothing and leaves the first run's file unchanged.              *)
C8_OutputsNamedCleaned ==
    /\ \A p \in DOMAIN disk : Contains(p, cleaned)
    /\ Written => new_filename \in DOMAIN disk

C8_SecondRunStep ==
    (run > 1 /\ run' = run) =>
        /\ UNCHANGED << raw, df, reads, dirs, disk >>
        /\ pc' \notin TryStages

C8_RerunIsNoOp == [] C8_OutputsNamedCleaned /\ [][C8_SecondRunStep]_vars

C8_Witness == run = 2 /\ pc = "exited" /\ ret = "None" /\ disk # <<>>

(* C9: the filter is stable: the output records are exactly the input     *)
(* records whose key matches no rule, in their original order.            *)
C9_StableFilter ==
    Written => [j \in 1..Len(Output) |-> df[j].row] = Survivors

(* C10: every output key, after truncation, matches no exclusion rule.    *)
C10_ClosedUnderTruncation ==
    Written => \A j \in 1..Len(Output) : ~RuleMatches(Output[j][1])

(* C10 as amended: every output key starts with no prefix literal, and it *)
(* equals a category literal only if it was truncated at " (".            *)
C10_ClosedForPrefixes ==
    Written =>
        \A j \in 1..Len(Output) :
            /\ \A p \in PrefixLiterals : ~StartsWith(Output[j][1], p)
            /\ Output[j][1] \in CategoryLiterals => Contains(RawKey(df[j].row), ParenSep)

C10_Witness ==
    /\ Written
    /\ \E j \in 1..Len(Output) : Output[j][1] = K_TOTAL /\ RawKey(df[j].row) = K_TOTALx
    /\ \E i \in 1..Len(raw.rows) : RawKey(i) = K_14

====
